---- MODULE Spec2Model ----
(***************************************************************************)
(* The client-side synchronisation logic of the Video Journal Assistant   *)
(* front end (the App component): the status poller (fetchData), the F9   *)
(* toggle handler (handleKeyDown), the session initializer                *)
(* (initializeConversation) and queryAgent, together with the backend     *)
(* they talk to over HTTP.                                                 *)
(*                                                                         *)
(* Every await of the component is a suspension point: the code up to an   *)
(* await, or between two awaits, is one atomic step (the browser's event   *)
(* loop is single-threaded), and a request in flight is served by the      *)
(* backend in a step of its own, so responses may come back in any order.  *)
(* The state setters called in one step are committed together, and the    *)
(* effects whose dependencies changed are re-run as part of the same step. *)
(* A closure created by an effect reads the state values of the render it  *)
(* was created in: a poll tick carries the values it captured when it was  *)
(* started.                                                                *)
(***************************************************************************)
EXTENDS Naturals, Sequences, FiniteSets, Bags

\* ------------------------------------------------------------------ bounds
\* Poll ticks that may be in flight at once.
MaxTicks == 2
\* Recordings the backend starts during the session (a toggle request that
\* would start one more fails).
MaxRecordings == 1
\* Video-card clicks during the session.
MaxClicks == 1

\* The videos the backend can come to hold: the two it may start with and
\* one for every recording.
MaxVideos == 2 + MaxRecordings

\* -------------------------------------------------------------------- text
Txt(t, n) == [t |-> t, n |-> n]
EmptyText == Txt("empty", 0)
RecordingStartedText == Txt("recording_started", 0)
RecordingStoppedText == Txt("recording_stopped", 0)
ToggleErrorText == Txt("toggle_error", 0)
AgentErrorText == Txt("agent_error", 0)

Msg(r, c) == [role |-> r, content |-> c]
NoMsg == Msg("none", EmptyText)

\* history.filter(msg => msg.role === 'assistant')
AssistantMessages(history) == SelectSeq(history, LAMBDA m : m.role = "assistant")

\* .shift() in place of .pop(): the first element.
PopFirst(s) == IF Len(s) = 0 THEN NoMsg ELSE s[1]

\* .pop() of the filtered list: its last element, or undefined (NoMsg).
PopLast(s) == IF Len(s) = 0 THEN NoMsg ELSE s[Len(s)]

LastAssistant(history) == PopLast(AssistantMessages(history))

\* conversationData.history.some(msg => msg.role === 'assistant')
HasAssistantMessages(history) == \E k \in 1..Len(history) : history[k].role = "assistant"

\* Lines 99-105 without the tests of lines 99 and 103.
ResponseTakenUnchecked(cur, history) == LastAssistant(history).content

\* The value setLastAgentResponse leaves after a conversation fetch.
AdoptLastResponse(cur, history) ==
    IF Len(history) > 0 /\ LastAssistant(history) # NoMsg
    THEN LastAssistant(history).content
    ELSE cur

\* ------------------------------------------------------------------- state
Status(r, c) == [is_recording |-> r, processed_video_count |-> c]
Conversation(h, v) == [history |-> h, videos |-> v]
EmptyConversation == Conversation(<<>>, <<>>)

\* A fetchData call: where it is (pc), what its closure captured (cr, cc, cp:
\* status.is_recording, status.processed_video_count, isProcessingVideo), the
\* status and the conversation it fetched (sd, cd), and fr: whether the state
\* said recording when the backend answered its status request.
NoTick == [pc |-> "none", cr |-> FALSE, cc |-> 0, cp |-> FALSE,
           sd |-> Status(FALSE, 0), cd |-> EmptyConversation, fr |-> FALSE]

VARIABLES
    conversationState,   \* useState: the conversation snapshot
    status,              \* useState: {is_recording, processed_video_count}
    lastAgentResponse,   \* useState
    loading,             \* useState
    isProcessingF9,      \* useState (the spec's isTogglePending)
    initialized,         \* useState
    isProcessingVideo,   \* useState
    ticks,               \* the fetchData calls in flight, with what each captured
    toggle,              \* the toggle_recording calls in flight and the cooldown timers
    init,                \* initializeConversation: where the current run is
    queries,             \* the queryAgent calls of video-card clicks in flight
    clicks,              \* video-card clicks so far
    extraFetches,        \* the fetches of line 123 issued since isProcessingVideo was last set
    srvStatus,           \* backend: what GET /api/status returns
    srvConv,             \* backend: what GET /api/conversation returns
    srvPending,          \* backend: stopped recordings still being analysed
    srvRecordings,       \* backend: recordings started so far
    session,             \* whether the component is mounted, and the interval
                         \* timers and keydown listeners its effects have registered
    ev                   \* "key_ignored" after an F9 event the handler returned on
                         \* at line 156 (a step that leaves no other trace),
                         \* "partial" after a poll tick that took the else branch
                         \* of line 82 and neither edge, else "step"

vars == <<conversationState, status, lastAgentResponse, loading, isProcessingF9,
          initialized, isProcessingVideo, ticks, toggle,
          init, queries, clicks, extraFetches, srvStatus, srvConv, srvPending, srvRecordings,
          session, ev>>

clientVars == <<conversationState, status, lastAgentResponse, loading, isProcessingF9,
                initialized, isProcessingVideo>>
srvVars == <<srvStatus, srvConv, srvPending, srvRecordings>>
pollVars == <<ticks, extraFetches>>
toggleVars == <<toggle>>
agentVars == <<init, queries, clicks>>

\* ------------------------------------------------- effect registrations
\* The cleanup of line 147 without its clearInterval.
IntervalsLeftByCleanup(n) == n

\* Line 147: the cleanup of the poll effect clears the effect's interval.
IntervalsAfterCleanup(n) == n - 1

\* Line 197: the cleanup of the keydown effect removes the effect's listener.
ListenersAfterCleanup(n) == n - 1

\* The keydown effect's dependency list (line 198).
KeyDeps(st, pv, f9) == <<f9, pv, st.is_recording>>

\* A commit that takes the state from (st0, pv0, f90) to (st1, pv1, f91): an
\* effect whose dependencies changed runs its cleanup and registers again
\* (lines 144 and 196).
RerunEffects(se, st0, pv0, f90, st1, pv1, f91) ==
    [se EXCEPT
       !.intervals = IF <<st0.is_recording, st0.processed_video_count, pv0>>
                        # <<st1.is_recording, st1.processed_video_count, pv1>>
                     THEN IntervalsAfterCleanup(@) + 1 ELSE @,
       !.listeners = IF KeyDeps(st0, pv0, f90) # KeyDeps(st1, pv1, f91)
                     THEN ListenersAfterCleanup(@) + 1 ELSE @]

\* ------------------------------------------------------------ poll ticks
\* fetchData() is called: the closure reads the state of the render that
\* created it, and the status request goes out.  Beyond MaxTicks the request
\* is taken to fail at once (a failed fetch changes nothing).
StartTick(tk, st, pv) ==
    IF BagCardinality(tk) >= MaxTicks THEN tk
    ELSE tk (+) SetToBag({[NoTick EXCEPT !.pc = "s_req", !.cr = st.is_recording,
                                         !.cc = st.processed_video_count, !.cp = pv]})

\* The tick t goes on as u, or ends (u = NoTick).
MoveTick(tk, t, u) ==
    IF u = NoTick THEN tk (-) SetToBag({t}) ELSE (tk (-) SetToBag({t})) (+) SetToBag({u})

\* The poll effect's dependency list: the effect is torn down and run again
\* (fetchData() at once, a new interval) when one of these changed.
PollDeps(st, pv) == <<st.is_recording, st.processed_video_count, pv>>

RerunPollEffect(tk, st0, pv0, st1, pv1) ==
    IF PollDeps(st0, pv0) # PollDeps(st1, pv1) THEN StartTick(tk, st1, pv1) ELSE tk

\* The guard of lines 80 and 92, on the values the closure captured.
Stable(t) == ~t.cr /\ ~t.cp

\* Line 110, on the captured status and the fetched one.
StopEdge(t) == t.cr /\ ~t.sd.is_recording

\* Line 117.
CompletionEdge(t) ==
    t.cp /\ ~t.sd.is_recording /\ t.sd.processed_video_count > t.cc

\* The else branch of line 82 with neither of the edges of lines 110 and 117.
PartialUpdate(t) == ~Stable(t) /\ ~StopEdge(t) /\ ~CompletionEdge(t)

\* Lines 80-89 without the branch: the fetched status is adopted whole.
StatusAlwaysAdopted(t, st) == t.sd

\* Lines 80-89 with an empty else branch: the state keeps its status.
StatusKeptOnPartial(t, st) == IF Stable(t) THEN t.sd ELSE st

\* Lines 80-89: setStatus.
StatusAfterFetch(t, st) ==
    IF Stable(t) THEN t.sd ELSE [st EXCEPT !.is_recording = t.sd.is_recording]

\* setInterval's callback fires.
PollTimer ==
    /\ session.intervals > 0
    /\ BagCardinality(ticks) < MaxTicks
    /\ ticks' = StartTick(ticks, status, isProcessingVideo)
    /\ ev' = "step"
    /\ UNCHANGED <<extraFetches, clientVars, toggleVars, agentVars, srvVars>>
    /\ UNCHANGED session

\* The backend answers GET /api/status.
ServeStatus(t) ==
    /\ t.pc = "s_req"
    /\ ticks' = MoveTick(ticks, t, [t EXCEPT !.pc = "s_resp", !.sd = srvStatus,
                                              !.fr = status.is_recording])
    /\ ev' = "step"
    /\ UNCHANGED <<extraFetches, clientVars, toggleVars, agentVars, srvVars>>
    /\ UNCHANGED session

\* The backend answers GET /api/conversation.
ServeConversation(t) ==
    /\ t.pc \in {"c_req", "x_req"}
    /\ ticks' = MoveTick(ticks, t,
                         [t EXCEPT !.pc = IF t.pc = "c_req" THEN "c_resp" ELSE "x_resp",
                                   !.cd = srvConv])
    /\ ev' = "step"
    /\ UNCHANGED <<extraFetches, clientVars, toggleVars, agentVars, srvVars>>
    /\ UNCHANGED session

\* A catch that falls back to the initial status.
StatusResetOnPollError(st) == Status(FALSE, 0)

\* The status the catch of lines 137-139 leaves: it calls no setter.
StatusAfterPollError(st) == st

\* A fetch of the tick rejects: the catch of line 137 logs and the tick ends.
PollFail(t) ==
    /\ t.pc \in {"s_req", "c_req", "x_req"}
    /\ ticks' = MoveTick(ticks, t, NoTick)
    /\ status' = StatusAfterPollError(status)
    /\ ev' = "step"
    /\ UNCHANGED <<extraFetches, conversationState, lastAgentResponse, loading,
                   isProcessingF9, initialized, isProcessingVideo,
                   toggleVars, agentVars, srvVars>>
    /\ UNCHANGED session

\* fetchData from the status response to its next await or its end
\* (lines 77-123).
PollStatus(t) ==
    LET st1 == StatusAfterFetch(t, status)
        pv1 == IF ~Stable(t) /\ StopEdge(t) THEN TRUE ELSE isProcessingVideo
        done == ~Stable(t) /\ CompletionEdge(t)
        st2 == IF done THEN t.sd ELSE st1
        pv2 == IF done THEN FALSE ELSE pv1
        next == IF Stable(t) THEN [NoTick EXCEPT !.pc = "c_req"]
                ELSE IF done THEN [NoTick EXCEPT !.pc = "x_req"]
                ELSE NoTick
    IN  /\ t.pc = "s_resp"
        /\ status' = st2
        /\ isProcessingVideo' = pv2
        /\ lastAgentResponse' =
              IF ~Stable(t) /\ StopEdge(t) THEN RecordingStoppedText ELSE lastAgentResponse
        /\ ticks' = RerunPollEffect(MoveTick(ticks, t, next),
                                    status, isProcessingVideo, st2, pv2)
        /\ extraFetches' = (IF pv1 /\ ~isProcessingVideo THEN 0 ELSE extraFetches)
                           + (IF done THEN 1 ELSE 0)
        /\ toggle' = [toggle EXCEPT !.stopped = IF pv1 THEN FALSE ELSE @]
        /\ session' = RerunEffects(session, status, isProcessingVideo, isProcessingF9,
                                   st2, pv2, isProcessingF9)
        /\ ev' = IF PartialUpdate(t) THEN "partial" ELSE "step"
        /\ UNCHANGED <<conversationState, loading, isProcessingF9, initialized,
                       agentVars, srvVars>>

\* fetchData from a conversation response to its end (lines 95-107 on the
\* stable path, lines 124-135 after the completion edge).
PollConversation(t) ==
    /\ t.pc \in {"c_resp", "x_resp"}
    /\ conversationState' = t.cd
    /\ lastAgentResponse' = AdoptLastResponse(lastAgentResponse, t.cd.history)
    /\ ticks' = MoveTick(ticks, t, NoTick)
    /\ ev' = "step"
    /\ UNCHANGED <<extraFetches, status, loading, isProcessingF9, initialized, isProcessingVideo,
                   toggleVars, agentVars, srvVars>>
    /\ UNCHANGED session

\* ---------------------------------------------------------------- toggle
\* The toggle_recording calls waiting for the backend (req), answered (ok) or
\* failed (fail) and not yet handled, the cooldown timers running (timer),
\* rec: the status.is_recording the accepted F9 event read at line 164, and
\* stopped: a recording begun and ended with F9 was stopped by the backend
\* and isProcessingVideo has not been set since.
NoToggle == [req |-> 0, ok |-> 0, fail |-> 0, timer |-> 0, rec |-> FALSE, stopped |-> FALSE]

\* Line 155 without its first disjunct.
KeyIgnoredWithoutPending == isProcessingVideo

\* Line 155 without its second disjunct.
KeyIgnoredWithoutProcessing == isProcessingF9

\* Line 155.
KeyIgnored == isProcessingF9 \/ isProcessingVideo

\* Lines 164-166 without the test: the placeholder is published always.
PlaceholderAlways(st, cur) == RecordingStartedText

\* Lines 164-166: lastAgentResponse after the placeholder step.
PlaceholderOnAccept(st, cur) == IF ~st.is_recording THEN RecordingStartedText ELSE cur

\* handleKeyDown for an F9 event, to its await (lines 153-173).
KeyDown ==
    /\ session.listeners > 0
    /\ IF KeyIgnored
       THEN /\ ev' = "key_ignored"
            /\ UNCHANGED <<clientVars, pollVars, toggleVars, agentVars, srvVars, session>>
       ELSE /\ isProcessingF9' = TRUE
            /\ session' = RerunEffects(session, status, isProcessingVideo, isProcessingF9,
                                       status, isProcessingVideo, TRUE)
            /\ lastAgentResponse' = PlaceholderOnAccept(status, lastAgentResponse)
            /\ toggle' = [toggle EXCEPT !.req = @ + 1, !.rec = status.is_recording]
            /\ ev' = "step"
            /\ UNCHANGED <<conversationState, status, loading, initialized,
                           isProcessingVideo, pollVars, agentVars, srvVars>>

\* The backend answers POST /api/toggle_recording: recording starts, or it
\* stops and the analysis of the recorded video begins.
ServeToggle ==
    /\ toggle.req > 0
    /\ srvStatus.is_recording \/ srvRecordings < MaxRecordings
    /\ srvRecordings' = IF srvStatus.is_recording THEN srvRecordings ELSE srvRecordings + 1
    /\ toggle' = [toggle EXCEPT !.req = @ - 1, !.ok = @ + 1,
                                !.stopped = IF srvStatus.is_recording /\ toggle.rec
                                            THEN ~isProcessingVideo ELSE @]
    /\ srvStatus' = [srvStatus EXCEPT !.is_recording = ~@]
    /\ srvPending' = IF srvStatus.is_recording THEN srvPending + 1 ELSE srvPending
    /\ ev' = "step"
    /\ UNCHANGED <<clientVars, pollVars, agentVars, srvConv>>
    /\ UNCHANGED session

\* The toggle request fails before the backend acts on it.
RejectToggle ==
    /\ toggle.req > 0
    /\ toggle' = [toggle EXCEPT !.req = @ - 1, !.fail = @ + 1]
    /\ ev' = "step"
    /\ UNCHANGED <<clientVars, pollVars, agentVars, srvVars>>
    /\ UNCHANGED session

\* Lines 178-181: the functional update of the toggle's success path.
FlipRecording(st) == [st EXCEPT !.is_recording = ~@]

\* handleKeyDown resumes with the response (lines 174-181, 187-191).
ToggleOk ==
    /\ toggle.ok > 0
    /\ toggle' = [toggle EXCEPT !.ok = @ - 1, !.timer = @ + 1, !.rec = FALSE]
    /\ status' = FlipRecording(status)
    /\ session' = RerunEffects(session, status, isProcessingVideo, isProcessingF9,
                               status', isProcessingVideo, isProcessingF9)
    /\ ticks' = RerunPollEffect(ticks, status, isProcessingVideo,
                                status', isProcessingVideo)
    /\ ev' = "step"
    /\ UNCHANGED <<extraFetches, conversationState, lastAgentResponse, loading, isProcessingF9,
                   initialized, isProcessingVideo, agentVars, srvVars>>

\* The flip of lines 178-181 done in the finally, so after a failure too.
StatusFlippedOnToggleError(st) == FlipRecording(st)

\* The status the catch of a failed toggle leaves (lines 184-187 call no
\* setStatus).
StatusAfterToggleError(st) == st

\* handleKeyDown resumes in its catch (lines 184-191).
ToggleFail ==
    /\ toggle.fail > 0
    /\ toggle' = [toggle EXCEPT !.fail = @ - 1, !.timer = @ + 1, !.rec = FALSE]
    /\ lastAgentResponse' = ToggleErrorText
    /\ status' = StatusAfterToggleError(status)
    /\ session' = RerunEffects(session, status, isProcessingVideo, isProcessingF9,
                               status', isProcessingVideo, isProcessingF9)
    /\ ticks' = RerunPollEffect(ticks, status, isProcessingVideo,
                                status', isProcessingVideo)
    /\ ev' = "step"
    /\ UNCHANGED <<extraFetches, conversationState, loading, isProcessingF9,
                   initialized, isProcessingVideo, agentVars, srvVars>>

\* The timeout's callback without line 190.
PendingLeftAfterCooldown == isProcessingF9

\* Line 190: the value the timeout's callback gives isProcessingF9.
PendingAfterCooldown == FALSE

\* The 1000 ms timeout of line 189 fires.
Cooldown ==
    /\ toggle.timer > 0
    /\ toggle' = [toggle EXCEPT !.timer = @ - 1]
    /\ isProcessingF9' = PendingAfterCooldown
    /\ session' = RerunEffects(session, status, isProcessingVideo, isProcessingF9,
                               status, isProcessingVideo, isProcessingF9')
    /\ ev' = "step"
    /\ UNCHANGED <<conversationState, status, lastAgentResponse, loading,
                   initialized, isProcessingVideo, pollVars, agentVars, srvVars>>

\* ----------------------------------------------------------- queryAgent
QueryWelcome == Txt("what_can_i_do", 0)
QuerySummarize == Txt("summarize_videos", 0)
QueryAboutVideo(index) == Txt("tell_me_about_video", index)

\* The catch of queryAgent: the text it publishes.
QueryErrorResponse == AgentErrorText

\* queryAgent without its finally: loading stays as it is.
LoadingLeftAfterQuery == loading

\* The finally of queryAgent: the value it leaves in loading.
LoadingAfterQuery == FALSE

\* The render without the filter of lines 273-275.
DisplayedUnfiltered(videos) == videos

\* lines 273-275: the videos the list shows.
DisplayedVideos(videos) == SelectSeq(videos, LAMBDA v : ~(v.status = "skipped"))

NoQuery == [pc |-> "none", q |-> EmptyText, resp |-> EmptyText]

\* A click on the video card at `index` of the displayed list: queryAgent
\* up to its await (lines 201-210).
Click(index) ==
    /\ session.mounted
    /\ clicks < MaxClicks
    /\ index \in 0..(Len(DisplayedVideos(conversationState.videos)) - 1)
    /\ clicks' = clicks + 1
    /\ loading' = TRUE
    /\ queries' = queries (+) SetToBag({[NoQuery EXCEPT !.pc = "req",
                                                         !.q = QueryAboutVideo(index)]})
    /\ ev' = "step"
    /\ UNCHANGED <<conversationState, status, lastAgentResponse, isProcessingF9,
                   initialized, isProcessingVideo, pollVars, toggleVars, init, srvVars>>
    /\ UNCHANGED session

\* queryAgent resumes with the response (lines 211-213, 219).
QueryOk(c) ==
    /\ c.pc = "ok"
    /\ lastAgentResponse' = c.resp
    /\ loading' = LoadingAfterQuery
    /\ queries' = queries (-) SetToBag({c})
    /\ ev' = "step"
    /\ UNCHANGED <<conversationState, status, isProcessingF9, initialized,
                   isProcessingVideo, pollVars, toggleVars, init, clicks, srvVars>>
    /\ UNCHANGED session

\* queryAgent resumes in its catch (lines 214-219).
QueryFail(c) ==
    /\ c.pc = "fail"
    /\ lastAgentResponse' = QueryErrorResponse
    /\ loading' = LoadingAfterQuery
    /\ queries' = queries (-) SetToBag({c})
    /\ ev' = "step"
    /\ UNCHANGED <<conversationState, status, isProcessingF9, initialized,
                   isProcessingVideo, pollVars, toggleVars, init, clicks, srvVars>>
    /\ UNCHANGED session

\* ------------------------------------------------ initializeConversation
NoInit == [pc |-> "done", sd |-> Status(FALSE, 0), cd |-> EmptyConversation,
           q |-> EmptyText, resp |-> EmptyText, welcomes |-> 0, asked |-> 0]

\* Line 26 missing: no run returns at once.
InitNeverReturnsAtOnce(isInit) == FALSE

\* Line 26: whether a run of the effect returns at once.
InitReturnsAtOnce(isInit) == isInit

\* The effect of line 24 runs: initializeConversation() up to its first await
\* (lines 26-31).  The pair is the run's record and the value of loading.
StartInit(prev, isInit, ld) ==
    IF InitReturnsAtOnce(isInit)
    THEN <<[NoInit EXCEPT !.welcomes = prev.welcomes,
                          !.asked = prev.asked], ld>>
    ELSE <<[NoInit EXCEPT !.pc = "s_req", !.welcomes = prev.welcomes, !.asked = prev.asked], TRUE>>

\* A run ends through line 60 and the finally of line 64; the effect runs
\* again when `initialized` changed (its dependency list, line 69).
FinishInit(prev, isInit0) ==
    IF isInit0 # TRUE THEN StartInit(prev, TRUE, FALSE)
    ELSE <<[NoInit EXCEPT !.welcomes = prev.welcomes,
                          !.asked = prev.asked], FALSE>>

\* The value of `initialized` after a run ended in the catch of line 61.
InitializedAfterError(isInit) == isInit

\* The backend answers the initializer's GET /api/status.
InitServeStatus ==
    /\ init.pc = "s_req"
    /\ init' = [init EXCEPT !.pc = "s_resp", !.sd = srvStatus]
    /\ ev' = "step"
    /\ UNCHANGED <<clientVars, pollVars, toggleVars, queries, clicks, srvVars>>
    /\ UNCHANGED session

\* The backend answers the initializer's GET /api/conversation.
InitServeConversation ==
    /\ init.pc = "c_req"
    /\ init' = [init EXCEPT !.pc = "c_resp", !.cd = srvConv]
    /\ ev' = "step"
    /\ UNCHANGED <<clientVars, pollVars, toggleVars, queries, clicks, srvVars>>
    /\ UNCHANGED session

\* A fetch of the initializer rejects: lines 61-64.
InitFetchFail ==
    /\ init.pc \in {"s_req", "c_req"}
    /\ init' = [NoInit EXCEPT !.pc = "failed", !.welcomes = init.welcomes, !.asked = init.asked]
    /\ initialized' = InitializedAfterError(initialized)
    /\ loading' = FALSE
    /\ ev' = "step"
    /\ UNCHANGED <<conversationState, status, lastAgentResponse, isProcessingF9,
                   isProcessingVideo, pollVars, toggleVars, queries, clicks, srvVars>>
    /\ UNCHANGED session

\* The initializer calls queryAgent(q): lines 201-210.
InitAsk(q) ==
    [init EXCEPT !.pc = "q_req", !.q = q, !.sd = Status(FALSE, 0),
                 !.cd = EmptyConversation, !.asked = @ + 1,
                 !.welcomes = IF q = QueryWelcome THEN @ + 1 ELSE @]

\* initializeConversation from the status response to its next await
\* (lines 32-36, 57).
InitStatus ==
    /\ init.pc = "s_resp"
    /\ IF init.sd.processed_video_count > 0
       THEN /\ init' = [init EXCEPT !.pc = "c_req", !.sd = Status(FALSE, 0)]
            /\ UNCHANGED loading
       ELSE /\ init' = InitAsk(QueryWelcome)
            /\ loading' = TRUE
    /\ ev' = "step"
    /\ UNCHANGED <<conversationState, status, lastAgentResponse, isProcessingF9,
                   initialized, isProcessingVideo, pollVars, toggleVars, queries, clicks,
                   srvVars>>
    /\ UNCHANGED session

\* initializeConversation from the conversation response to its next await
\* or its end (lines 37-54, 60, 64).
InitConversation ==
    /\ init.pc = "c_resp"
    /\ IF ~HasAssistantMessages(init.cd.history)
       THEN /\ init' = InitAsk(QuerySummarize)
            /\ loading' = TRUE
            /\ UNCHANGED <<lastAgentResponse, initialized>>
       ELSE /\ lastAgentResponse' =
                  IF LastAssistant(init.cd.history) # NoMsg
                  THEN LastAssistant(init.cd.history).content
                  ELSE lastAgentResponse
            /\ initialized' = TRUE
            /\ init' = FinishInit(init, initialized)[1]
            /\ loading' = FinishInit(init, initialized)[2]
    /\ ev' = "step"
    /\ UNCHANGED <<conversationState, status, isProcessingF9, isProcessingVideo,
                   pollVars, toggleVars, queries, clicks, srvVars>>
    /\ UNCHANGED session

\* The awaited queryAgent of the initializer ends (lines 211-219) and the
\* initializer goes on to its end (lines 60, 64).
InitQueryDone ==
    /\ init.pc \in {"q_ok", "q_fail"}
    /\ lastAgentResponse' = IF init.pc = "q_ok" THEN init.resp ELSE QueryErrorResponse
    /\ initialized' = TRUE
    /\ init' = FinishInit(init, initialized)[1]
    /\ loading' = FinishInit(init, initialized)[2]
    /\ ev' = "step"
    /\ UNCHANGED <<conversationState, status, isProcessingF9, isProcessingVideo,
                   pollVars, toggleVars, queries, clicks, srvVars>>
    /\ UNCHANGED session

\* --------------------------------------------------------------- backend
AnalysisMsg(n) == Msg("assistant", Txt("analysis", n))
Video(n) == [summary |-> n, status |-> "ok"]
SkippedVideo(n) == [summary |-> n, status |-> "skipped"]

\* The analysis of a stopped recording ends: the video is counted and the
\* assistant's message about it is appended to the history.
ProcessingDone ==
    /\ srvPending > 0
    /\ srvPending' = srvPending - 1
    /\ srvStatus' = [srvStatus EXCEPT !.processed_video_count = @ + 1]
    /\ srvConv' = Conversation(
            Append(srvConv.history, AnalysisMsg(srvStatus.processed_video_count + 1)),
            Append(srvConv.videos, Video(srvStatus.processed_video_count + 1)))
    /\ ev' = "step"
    /\ UNCHANGED <<clientVars, pollVars, toggleVars, agentVars, srvRecordings>>
    /\ UNCHANGED session

\* The backend's answer to a query.
AnswerTo(q) ==
    CASE q = QueryWelcome -> Txt("welcome_answer", 0)
      [] q = QuerySummarize -> Txt("summary_answer", 0)
      [] OTHER -> Txt("video_answer", q.n)

HistoryAfterQuery(h, q) == Append(Append(h, Msg("user", q)), Msg("assistant", AnswerTo(q)))

\* The backend answers POST /api/agent_query of a video-card click.
ServeAgent(c) ==
    /\ c.pc = "req"
    /\ queries' = (queries (-) SetToBag({c}))
                      (+) SetToBag({[c EXCEPT !.pc = "ok", !.resp = AnswerTo(c.q)]})
    /\ srvConv' = [srvConv EXCEPT !.history = HistoryAfterQuery(@, c.q)]
    /\ ev' = "step"
    /\ UNCHANGED <<clientVars, pollVars, toggleVars, init, clicks, srvStatus, srvPending, srvRecordings>>
    /\ UNCHANGED session

\* The request of a video-card click fails.
RejectAgent(c) ==
    /\ c.pc = "req"
    /\ queries' = (queries (-) SetToBag({c})) (+) SetToBag({[c EXCEPT !.pc = "fail"]})
    /\ ev' = "step"
    /\ UNCHANGED <<clientVars, pollVars, toggleVars, init, clicks, srvVars>>
    /\ UNCHANGED session

\* The backend answers POST /api/agent_query of the initializer.
InitServeAgent ==
    /\ init.pc = "q_req"
    /\ init' = [init EXCEPT !.pc = "q_ok", !.resp = AnswerTo(init.q)]
    /\ srvConv' = [srvConv EXCEPT !.history = HistoryAfterQuery(@, init.q)]
    /\ ev' = "step"
    /\ UNCHANGED <<clientVars, pollVars, toggleVars, queries, clicks, srvStatus, srvPending, srvRecordings>>
    /\ UNCHANGED session

\* The initializer's query fails.
InitRejectAgent ==
    /\ init.pc = "q_req"
    /\ init' = [init EXCEPT !.pc = "q_fail"]
    /\ ev' = "step"
    /\ UNCHANGED <<clientVars, pollVars, toggleVars, queries, clicks, srvVars>>
    /\ UNCHANGED session

\* ----------------------------------------------------------- session end
\* The component unmounts: the cleanups of lines 147 and 197 run.  The calls
\* still in flight go on, but the setters of an unmounted component change
\* nothing and no effect runs again, so they are not followed any further.
Unmount ==
    /\ session.mounted
    /\ session' = [mounted |-> FALSE,
                   intervals |-> IntervalsAfterCleanup(session.intervals),
                   listeners |-> ListenersAfterCleanup(session.listeners)]
    /\ ticks' = EmptyBag
    /\ toggle' = NoToggle
    /\ queries' = EmptyBag
    /\ init' = [NoInit EXCEPT !.pc = IF init.pc = "failed" THEN "failed" ELSE "done",
                              !.welcomes = init.welcomes, !.asked = init.asked]
    /\ ev' = "step"
    /\ UNCHANGED <<clientVars, extraFetches, clicks, srvVars>>

\* ------------------------------------------------------------------ spec
\* The backend's state when the session starts: no video yet, or two videos
\* of which the first was skipped and no assistant message, or one video
\* with an assistant message about it.
InitialBackends ==
    { <<Status(FALSE, 0), EmptyConversation>>,
      <<Status(FALSE, 2), Conversation(<<>>, <<SkippedVideo(1), Video(2)>>)>>,
      <<Status(FALSE, 1), Conversation(<<AnalysisMsg(1)>>, <<Video(1)>>)>> }

\* The state after the first render and its effects: the poll effect has
\* called fetchData() once.
Init ==
    /\ conversationState = EmptyConversation
    /\ status = Status(FALSE, 0)
    /\ lastAgentResponse = EmptyText
    /\ loading = StartInit(NoInit, FALSE, FALSE)[2]
    /\ isProcessingF9 = FALSE
    /\ initialized = FALSE
    /\ isProcessingVideo = FALSE
    /\ ticks = StartTick(EmptyBag, Status(FALSE, 0), FALSE)
    /\ extraFetches = 0
    /\ toggle = NoToggle
    /\ init = StartInit(NoInit, FALSE, FALSE)[1]
    /\ queries = EmptyBag
    /\ clicks = 0
    /\ \E b \in InitialBackends : srvStatus = b[1] /\ srvConv = b[2]
    /\ srvPending = 0
    /\ srvRecordings = 0
    /\ session = [mounted |-> TRUE, intervals |-> 1, listeners |-> 1]
    /\ ev = "step"

\* fetchData and the requests it makes.
PollNext ==
    \/ PollTimer
    \/ \E t \in BagToSet(ticks) : ServeStatus(t)
    \/ \E t \in BagToSet(ticks) : ServeConversation(t)
    \/ \E t \in BagToSet(ticks) : PollFail(t)
    \/ \E t \in BagToSet(ticks) : PollStatus(t)
    \/ \E t \in BagToSet(ticks) : PollConversation(t)

\* handleKeyDown, the requests it makes, and the analysis a stop sets off.
ToggleNext ==
    \/ KeyDown
    \/ ServeToggle
    \/ RejectToggle
    \/ ToggleOk
    \/ ToggleFail
    \/ Cooldown
    \/ ProcessingDone

\* initializeConversation, the video-card clicks, and the requests they make.
AgentNext ==
    \/ \E index \in 0..(MaxVideos - 1) : Click(index)
    \/ \E c \in BagToSet(queries) : ServeAgent(c)
    \/ \E c \in BagToSet(queries) : RejectAgent(c)
    \/ \E c \in BagToSet(queries) : QueryOk(c)
    \/ \E c \in BagToSet(queries) : QueryFail(c)
    \/ InitServeStatus
    \/ InitServeConversation
    \/ InitFetchFail
    \/ InitStatus
    \/ InitConversation
    \/ InitServeAgent
    \/ InitRejectAgent
    \/ InitQueryDone

Next == PollNext \/ ToggleNext \/ AgentNext

\* The whole session.
Spec == Init /\ [][Next]_vars

\* The sessions in which the backend has not answered the initializer yet and
\* no video card is clicked.  The initializer and queryAgent write only
\* lastAgentResponse, loading, initialized and the backend's history, none of
\* which a guard of fetchData or handleKeyDown reads.
SyncSpec == Init /\ [][PollNext \/ ToggleNext]_vars

\* The sessions in which F9 is never pressed.
AgentSpec == Init /\ [][PollNext \/ AgentNext]_vars

\* The sessions of SyncSpec, and their end.
LifecycleSpec == Init /\ [][PollNext \/ ToggleNext \/ Unmount]_vars

\* fetchData and handleKeyDown when no request fails.
PollOkNext ==
    \/ PollTimer
    \/ \E t \in BagToSet(ticks) : ServeStatus(t)
    \/ \E t \in BagToSet(ticks) : ServeConversation(t)
    \/ \E t \in BagToSet(ticks) : PollStatus(t)
    \/ \E t \in BagToSet(ticks) : PollConversation(t)

ToggleOkNext ==
    \/ KeyDown
    \/ ServeToggle
    \/ ToggleOk
    \/ Cooldown
    \/ ProcessingDone

\* The interval keeps firing, the backend answers every request it can
\* answer, and the event loop runs every continuation and timeout that is
\* ready.  Nothing obliges the user to press F9.
PollFairness ==
    /\ WF_vars(PollTimer)
    /\ WF_vars(\E t \in BagToSet(ticks) : ServeStatus(t))
    /\ WF_vars(\E t \in BagToSet(ticks) : ServeConversation(t))
    /\ WF_vars(\E t \in BagToSet(ticks) : PollStatus(t))
    /\ WF_vars(\E t \in BagToSet(ticks) : PollConversation(t))

ToggleOkFairness ==
    /\ WF_vars(ServeToggle)
    /\ WF_vars(ToggleOk)
    /\ WF_vars(Cooldown)
    /\ WF_vars(ProcessingDone)

\* The same when a toggle request may fail: it is answered or it fails.
ToggleFairness ==
    /\ WF_vars(ServeToggle \/ RejectToggle)
    /\ WF_vars(ToggleOk)
    /\ WF_vars(ToggleFail)
    /\ WF_vars(Cooldown)
    /\ WF_vars(ProcessingDone)

\* The sessions of SyncSpec in which no request fails and polls keep running
\* (a toggle request the backend cannot serve, beyond MaxRecordings, stays
\* unanswered).
ReconcileSpec ==
    Init /\ [][PollOkNext \/ ToggleOkNext]_vars /\ PollFairness /\ ToggleOkFairness

\* The sessions in which only handleKeyDown, its requests and its timeouts
\* run (no response reaches the poller or the initializer).
KeySpec == Init /\ [][ToggleNext]_vars /\ ToggleFairness

\* ---------------------------------------------------------------- claims
\* A step of fetchData that handles a response.
PollContinuation(t) == PollStatus(t) \/ PollConversation(t)

\* C1: while isProcessingVideo is true no continuation of a poll tick changes
\* status.processed_video_count or the conversation snapshot, except the
\* completion edge, which also clears isProcessingVideo.
C1_NoPollOverwriteWhileProcessing ==
    [][\A t \in BagToSet(ticks) :
          (isProcessingVideo /\ PollContinuation(t))
          => \/ /\ status'.processed_video_count = status.processed_video_count
                /\ conversationState' = conversationState
             \/ /\ t.pc = "s_resp" /\ CompletionEdge(t)
                /\ ~isProcessingVideo']_vars

\* C2 (stop edge): when the state says recording with count N and a poll tick
\* then fetches a status that says not recording, the tick sets
\* isProcessingVideo, and while it is set the count in the state moves only
\* when a poll tick hands over a greater count.
C2_StopEdgeDetected ==
    [][\A t \in BagToSet(ticks) :
          PollStatus(t) =>
             /\ (t.fr /\ ~t.sd.is_recording) => isProcessingVideo'
             /\ (isProcessingVideo \/ (t.fr /\ ~t.sd.is_recording))
                => \/ status'.processed_video_count = status.processed_video_count
                   \/ t.sd.processed_video_count > status.processed_video_count]_vars

\* C3 (completion edge): a poll tick that finds the count past its baseline
\* with recording off clears isProcessingVideo, and the extra conversation
\* fetch it issues is the only one since isProcessingVideo was set.
C3_OneExtraFetchPerCompletion ==
    [][\A t \in BagToSet(ticks) :
          (PollStatus(t) /\ CompletionEdge(t))
          => ~isProcessingVideo' /\ extraFetches' = 1]_vars

\* The toggle_recording calls in flight, and those plus the cooldown timers.
TogglesInFlight == toggle.req + toggle.ok + toggle.fail
ToggleWindow == TogglesInFlight + toggle.timer

\* C4 (toggle debounce): from the F9 event that was accepted until its
\* cooldown has run out, an F9 event issues no call, so at most one
\* toggle_recording call is in flight and the window sees exactly one call.
C4_ToggleDebounce ==
    [][/\ (ToggleWindow > 0 /\ KeyDown) => toggle' = toggle
       /\ TogglesInFlight' <= 1
       /\ ToggleWindow' <= 1
       /\ isProcessingF9' <=> (ToggleWindow' = 1)]_vars

\* An F9 event came during the cooldown, with no video being processed, and
\* was dropped.
C4_Witness ==
    /\ ev = "key_ignored"
    /\ toggle.timer = 1
    /\ isProcessingF9 /\ ~isProcessingVideo

\* C5 (re-entrancy guard): an F9 event handled while isProcessingVideo is true
\* issues no toggle_recording call and changes no state variable.
C5_KeyIgnoredWhileProcessing ==
    [][(isProcessingVideo /\ KeyDown)
       => UNCHANGED <<clientVars, pollVars, toggleVars, agentVars, srvVars>>]_vars

\* An F9 event came while a video was processed, with no toggle pending, and
\* was dropped.
C5_Witness ==
    /\ ev = "key_ignored"
    /\ isProcessingVideo /\ ~isProcessingF9

\* C6: once the initializer has finished, on any path, initialized is true.
C6_InitializedOnEveryPath == init.pc \in {"done", "failed"} => initialized

\* C7: when the toggle_recording call fails, status.is_recording stays as it
\* was, isProcessingVideo is not set, and the error text is published.
C7_ToggleFailureLeavesRecording ==
    [][ToggleFail
       => /\ status'.is_recording = status.is_recording
          /\ isProcessingVideo' = isProcessingVideo
          /\ lastAgentResponse' = ToggleErrorText]_vars

\* A toggle call failed while the state said recording: the error text is up,
\* the cooldown runs, the state still says recording.
C7_Witness ==
    /\ lastAgentResponse = ToggleErrorText
    /\ toggle.timer = 1
    /\ status.is_recording

\* C8: when the initializer's status fetch reports no video, the welcome
\* query is issued at that step, and it is never issued a second time.
C8_WelcomeQueryExactlyOnce ==
    [][/\ (InitStatus /\ init.sd.processed_video_count = 0) => init'.welcomes = 1
       /\ init.welcomes >= 1 => init'.welcomes = 1
       /\ init'.welcomes <= 1]_vars

\* The initializer asked its welcome query, finished, and the effect ran
\* again with initialized true.
C8_Witness ==
    /\ init.welcomes = 1
    /\ init.pc = "done"
    /\ initialized

\* c is the content of the last assistant message of history h.
IsLastAssistantContent(h, c) ==
    \E k \in 1..Len(h) :
        /\ h[k].role = "assistant"
        /\ h[k].content = c
        /\ \A j \in (k + 1)..Len(h) : h[j].role # "assistant"

\* C9: when the status fetch reports videos and the fetched history holds an
\* assistant message, the initializer issues no query and publishes the
\* content of the last assistant message of that history.
C9_InitAdoptsLastAssistantMessage ==
    [][(InitConversation
        /\ \E k \in 1..Len(init.cd.history) : init.cd.history[k].role = "assistant")
       => /\ IsLastAssistantContent(init.cd.history, lastAgentResponse')
          /\ init'.asked = init.asked
          /\ init'.pc = "done"]_vars

\* The initializer finished without a query, on a history with two assistant
\* messages of different content.
C9_Witness ==
    /\ initialized
    /\ init.asked = 0
    /\ Len(AssistantMessages(srvConv.history)) >= 2
    /\ lastAgentResponse = LastAssistant(srvConv.history).content
    /\ lastAgentResponse # srvConv.history[1].content

\* C10: every queryAgent call sets loading at its start and clears it at its
\* end, publishing the response on success and the error text on failure.
C10_LoadingBrackets ==
    [][/\ (\E index \in 0..(MaxVideos - 1) : Click(index)) => loading'
       /\ ((InitStatus \/ InitConversation) /\ init'.pc = "q_req") => loading'
       /\ \A c \in BagToSet(queries) :
             /\ QueryOk(c) => ~loading' /\ lastAgentResponse' = c.resp
             /\ QueryFail(c) => ~loading' /\ lastAgentResponse' = AgentErrorText
       /\ InitQueryDone
          => /\ ~loading'
             /\ lastAgentResponse' = IF init.pc = "q_ok" THEN init.resp
                                     ELSE AgentErrorText]_vars

\* A video-card query failed and ended: the error text is up, loading is off.
C10_Witness ==
    /\ clicks = 1
    /\ queries = EmptyBag
    /\ lastAgentResponse = AgentErrorText
    /\ ~loading

\* The conversation requests of the poll ticks in flight.
ConversationFetches(tk) ==
    BagCardinality([t \in {u \in BagToSet(tk) : u.pc \in {"c_req", "x_req"}} |-> tk[t]])

\* C11 (partial update): a poll tick started while the state said recording
\* or processing, on which neither edge fires, sets status.is_recording to the
\* fetched value and changes nothing else of the state: the count, the
\* conversation snapshot, lastAgentResponse and isProcessingVideo stay, and no
\* conversation request goes out.
C11_PartialUpdateOnly ==
    [][\A t \in BagToSet(ticks) :
          (PollStatus(t) /\ (t.cr \/ t.cp) /\ ~StopEdge(t) /\ ~CompletionEdge(t))
          => /\ status' = [status EXCEPT !.is_recording = t.sd.is_recording]
             /\ UNCHANGED <<conversationState, lastAgentResponse, isProcessingVideo,
                            loading, isProcessingF9, initialized>>
             /\ ConversationFetches(ticks') = ConversationFetches(ticks)]_vars

\* A partial update has just kept the count of the state (0) although the
\* backend reports another one.
C11_Witness ==
    /\ ev = "partial"
    /\ status.is_recording
    /\ status.processed_video_count = 0
    /\ srvStatus.processed_video_count = 1

\* line 271: the count in the heading of the video list.
VideoCountShown == status.processed_video_count

\* The positions of the videos that are not skipped.
KeptPositions(videos) == {k \in 1..Len(videos) : videos[k].status # "skipped"}

\* shown is the subsequence of videos at the kept positions, in their order.
IsKeptSubsequence(shown, videos) ==
    /\ Len(shown) = Cardinality(KeptPositions(videos))
    /\ \A k \in KeptPositions(videos) :
          shown[Cardinality({j \in KeptPositions(videos) : j <= k})] = videos[k]

\* C12: the video list shows exactly the videos of the snapshot whose status
\* is not "skipped", in order, and the count shown is the count of the status
\* a stable poll tick adopted from the backend, whatever the filter dropped.
C12_DisplayedVideosAndCount ==
    [][/\ IsKeptSubsequence(DisplayedVideos(conversationState'.videos),
                            conversationState'.videos)
       /\ \A t \in BagToSet(ticks) :
             (PollStatus(t) /\ Stable(t))
             => VideoCountShown' = t.sd.processed_video_count]_vars

\* The snapshot holds a skipped video: one card is shown under a count of 2.
C12_Witness ==
    /\ conversationState.videos = <<SkippedVideo(1), Video(2)>>
    /\ Len(DisplayedVideos(conversationState.videos)) = 1
    /\ VideoCountShown = 2

\* C13: isProcessingVideo goes from true to false only in the step of a poll
\* tick that handles a fetched status with is_recording = false and a count
\* greater than the count the state holds.
C13_ClearedOnlyAtCompletion ==
    [][(isProcessingVideo /\ ~isProcessingVideo')
       => \E t \in BagToSet(ticks) :
             /\ PollStatus(t)
             /\ ~t.sd.is_recording
             /\ t.sd.processed_video_count > status.processed_video_count]_vars

\* C14: once the backend has stopped a recording on an F9 event that was
\* accepted while the state said recording, no poll tick adopts a fetched
\* status whole before isProcessingVideo has been set.
C14_ProcessingEnteredAfterStop ==
    [][\A t \in BagToSet(ticks) :
          (toggle.stopped /\ PollStatus(t)) => ~Stable(t)]_vars

\* C15 (no stuck processing): while isProcessingVideo is true and the backend
\* is not recording, the count in the state is below the count the backend
\* reaches once its pending analyses are done, so that a later poll can find
\* the count past the baseline and clear isProcessingVideo.
C15_NoStuckProcessing ==
    (isProcessingVideo /\ ~srvStatus.is_recording)
    => status.processed_video_count < srvStatus.processed_video_count + srvPending

\* C17: when handleKeyDown has handled the response of a successful
\* toggle_recording call, status.is_recording equals the backend's
\* is_recording (this client is the only one that toggles the backend).
C17_FlipMatchesBackend ==
    [][ToggleOk => status'.is_recording = srvStatus'.is_recording]_vars

\* C18 (stable full adopt): a poll tick started with is_recording = false and
\* isProcessingVideo = false puts the fetched status in the state and goes on
\* to fetch the conversation; it then puts the fetched snapshot in the state
\* and publishes the content of its last assistant message, or leaves
\* lastAgentResponse alone when the snapshot has none.
C18_StableFullAdopt ==
    [][\A t \in BagToSet(ticks) :
          /\ (PollStatus(t) /\ Stable(t))
             => /\ status' = t.sd
                /\ ConversationFetches(ticks') = ConversationFetches(ticks) + 1
          /\ (PollConversation(t) /\ Stable(t) /\ t.pc = "c_resp")
             => /\ conversationState' = t.cd
                /\ IF \E k \in 1..Len(t.cd.history) : t.cd.history[k].role = "assistant"
                   THEN IsLastAssistantContent(t.cd.history, lastAgentResponse')
                   ELSE lastAgentResponse' = lastAgentResponse]_vars

\* The state holds the backend's status and a snapshot with two assistant
\* messages, and the response shown is the content of the last one.
C18_Witness ==
    /\ status = srvStatus
    /\ status.processed_video_count > 0
    /\ conversationState = srvConv
    /\ Len(AssistantMessages(conversationState.history)) >= 2
    /\ IsLastAssistantContent(conversationState.history, lastAgentResponse)
    /\ lastAgentResponse # conversationState.history[1].content

\* C20: an F9 event that is accepted while the state says not recording
\* publishes the "Recording started" text in the step that issues the
\* toggle_recording call; one accepted while the state says recording leaves
\* lastAgentResponse as it was.
C20_PlaceholderIffNotRecording ==
    [][(KeyDown /\ ~KeyIgnored)
       => /\ toggle'.req = toggle.req + 1
          /\ ~status.is_recording => lastAgentResponse' = RecordingStartedText
          /\ status.is_recording => lastAgentResponse' = lastAgentResponse]_vars

\* An F9 event was accepted while the state said recording: its call is in
\* flight and the response shown is not the placeholder.
C20_Witness ==
    /\ toggle.req = 1
    /\ toggle.rec
    /\ status.is_recording
    /\ lastAgentResponse # RecordingStartedText

\* C16 (reconciliation): when polls keep running and succeeding, from some
\* point on status.is_recording equals the backend's is_recording for good
\* (the backend changes is_recording at most 2 * MaxRecordings times, so it
\* does stop changing).
C16_EventuallyReconciled == <>[](status.is_recording = srvStatus.is_recording)

\* The backend has recorded and stopped, no toggle call is outstanding, and a
\* partial update has just written the backend's is_recording.
C16_Witness ==
    /\ ev = "partial"
    /\ srvRecordings = MaxRecordings
    /\ ~srvStatus.is_recording
    /\ toggle.req + toggle.ok = 0
    /\ status.is_recording = srvStatus.is_recording

\* C19: isProcessingF9, once set by an accepted F9 event, is cleared in the
\* end; it is cleared only by the timeout that the handling of the call's
\* success or failure starts, so never while the call is in flight.
C19_PendingClearedAfterCooldown ==
    /\ isProcessingF9 ~> ~isProcessingF9
    /\ [][/\ (isProcessingF9 /\ ~isProcessingF9')
             => (toggle.timer > 0 /\ toggle.req + toggle.ok + toggle.fail = 0)
          /\ (ToggleOk \/ ToggleFail)
             => (toggle'.timer = toggle.timer + 1 /\ isProcessingF9')]_vars

\* A toggle call failed, its cooldown ran out and isProcessingF9 is cleared.
C19_Witness ==
    /\ ~isProcessingF9
    /\ lastAgentResponse = ToggleErrorText
    /\ toggle.req + toggle.ok + toggle.fail + toggle.timer = 0

\* C21: a poll tick whose status request fails changes nothing of the state
\* and leaves the interval registered, so that the interval's next firing
\* starts a tick.
C21_PollFailureSkipped ==
    [][\A t \in BagToSet(ticks) :
          (PollFail(t) /\ t.pc = "s_req")
          => /\ UNCHANGED <<clientVars, toggleVars, agentVars, extraFetches, session>>
             /\ session'.intervals = 1
             /\ BagCardinality(ticks') < MaxTicks]_vars

\* The backend holds two videos, no request is in flight and the state still
\* holds the initial status: the status request of the session's first tick
\* failed.
C21_Witness ==
    /\ ticks = EmptyBag
    /\ srvStatus.processed_video_count = 2
    /\ status = Status(FALSE, 0)
    /\ conversationState = EmptyConversation
    /\ session.intervals = 1

\* C22: status.processed_video_count never decreases (the backend's count
\* never does).
C22_CountNeverDecreases ==
    [][status'.processed_video_count >= status.processed_video_count]_vars

\* C23: loading is true whenever a queryAgent call or the initializer is in
\* flight.
C23_LoadingWhileInFlight ==
    (queries # EmptyBag \/ init.pc \notin {"done", "failed"}) => loading

\* C24: at most one interval timer and one keydown listener are registered
\* at any time, exactly one of each while the component is mounted and none
\* after it; after the session's end no poll tick starts and no F9 event is
\* handled.
C24_SingleTimerAndListener ==
    [][/\ session'.intervals = (IF session'.mounted THEN 1 ELSE 0)
       /\ session'.listeners = (IF session'.mounted THEN 1 ELSE 0)
       /\ ~session.mounted
          => /\ ticks' = EmptyBag
             /\ toggle' = NoToggle
             /\ ev' # "key_ignored"
             /\ UNCHANGED clientVars]_vars

\* The session ended while the state said recording, so after the effects
\* had been registered again: no timer and no listener is left.
C24_Witness ==
    /\ ~session.mounted
    /\ session.intervals = 0 /\ session.listeners = 0
    /\ status.is_recording

====
